---- MODULE Spec2Model ----
(***************************************************************************)
(* Audit-trail integrity pipeline (src/audit_trail_integrity).             *)
(*                                                                         *)
(* The repository holds two implementations of the pipeline: the single    *)
(* file audit_trail.py and the split modules log_collector.py /            *)
(* log_signer.py / s3_uploader.py / main.py.  The variable impl says which *)
(* one a behaviour runs.  The file system is a function from paths to      *)
(* contents; a content is a sequence of chunks (log lines, or the one      *)
(* chunk of a key, digest or signature file).  RSA and SHA-256 are         *)
(* symbolic: a signature names the key that made it and the bytes it       *)
(* covers, a digest names the bytes it covers.                             *)
(***************************************************************************)
EXTENDS Naturals, Sequences, FiniteSets, TLC

VARIABLES impl, simulate, today, fs, s3, handlers, proc, nextKey, nextEvent,
          inodes, taken, signed, ret, request_data, sanitized

vars == <<impl, simulate, today, fs, s3, handlers, proc, nextKey, nextEvent,
          inodes, taken, signed, ret, request_data, sanitized>>

(* ------------------------------ bounds -------------------------------- *)
\* Steps of one behaviour: operations of the program that are invoked, and
\* changes the environment makes to the files behind the program's back.
MaxSteps == 4

(* ------------------------------ paths --------------------------------- *)
P(d, n) == [dir |-> d, name |-> n]

None == P("none", <<>>)

\* Config.LOG_DIR, Config.SIGNATURES_DIR, Config.KEYS_DIR
LOG_DIR == "logs"
SIGNATURES_DIR == "signatures"
KEYS_DIR == "keys"

\* f"{path}{extension}"
Ext(p, e) == P(p.dir, Append(p.name, e))

SIGNATURE_FILE_EXTENSION == "sig"
HASH_FILE_EXTENSION == "sha256"

get_private_key_path == P(KEYS_DIR, <<"private_key", "pem">>)
get_public_key_path == P(KEYS_DIR, <<"public_key", "pem">>)

\* AuditLogger._get_log_path / Config.get_log_path_for_date
get_log_path(d) == P(LOG_DIR, <<"api_log", ToString(d), "log">>)

SnapshotInPlace(lp) == lp
SnapshotOf(lp) == Ext(lp, "snapshot")

\* A path that names a file no operation of the program creates.
Missing == P("tmp", <<"missing">>)

\* Path given as a bare file name: no directory part.
Bare(p) == P("", p.name)

(* ----------------------------- contents ------------------------------- *)
Chunk(t, n, of) == [t |-> t, n |-> n, of |-> of]

Diag(g) == Chunk("diag", g, <<>>)
\* One "AUDIT: {json}" line: the event id and the details it serializes.
Audit(id, details) == Chunk("audit", id, <<details>>)
PrivPem(k) == <<Chunk("priv", k, <<>>)>>
PubPem(k) == <<Chunk("pub", k, <<>>)>>
Garbage == <<Chunk("garbage", 0, <<>>)>>

\* private_key.sign(content, PKCS1v15, SHA256): deterministic in key and bytes.
RsaSign(k, content) == <<Chunk("sig", k, content)>>

\* A verification that checks the signing key and not the signed bytes.
RsaVerifyKeyOnly(k, signature, content) ==
    Len(signature) = 1 /\ signature[1].t = "sig" /\ signature[1].n = k

\* public_key.verify(signature, content, PKCS1v15, SHA256) does not raise.
RsaVerify(k, signature, content) == signature = RsaSign(k, content)

\* hashlib.sha256 over the bytes, as hexdigest text.
Sha256Hex(content) == <<Chunk("sha256", 0, content)>>

NoDigest == <<>>

Exists(f, p) == p \in DOMAIN f

WriteFile(f, p, c) == [q \in (DOMAIN f) \cup {p} |-> IF q = p THEN c ELSE f[q]]

RemoveFile(f, p) == [q \in (DOMAIN f) \ {p} |-> f[q]]

NoFiles == [q \in {} |-> <<>>]

\* The bytes of a file, nothing when there is no such file.
Bytes(f, p) == IF Exists(f, p) THEN f[p] ELSE <<>>

\* The bytes of the two key files.
KeyFiles(f) == [priv |-> Bytes(f, get_private_key_path),
                pub |-> Bytes(f, get_public_key_path)]

(* ------------------------------ logging ------------------------------- *)
\* One record of the "audit_trail" logger reaches every FileHandler that is
\* attached; a handler whose file was unlinked writes to no visible file.
\* A logger that derives the file from the date of each record.
EmitToTodaysLog(f, hs, line) ==
    IF hs = <<>> THEN f
    ELSE WriteFile(f, get_log_path(today),
                   Append(Bytes(f, get_log_path(today)), line))

RECURSIVE EmitTo(_, _, _)
EmitTo(f, hs, line) ==
    IF hs = <<>> THEN f
    ELSE LET h == Head(hs)
             f1 == IF h.live /\ Exists(f, h.path)
                   THEN [f EXCEPT ![h.path] = Append(@, line)]
                   ELSE f
         IN EmitTo(f1, Tail(hs), line)

RECURSIVE EmitDiag(_, _)
EmitDiag(f, hs) ==
    IF hs = <<>> THEN f
    ELSE LET h == Head(hs)
             f1 == IF h.live /\ Exists(f, h.path)
                   THEN [f EXCEPT ![h.path] = Append(@, Diag(h.gen))]
                   ELSE f
         IN EmitDiag(f1, Tail(hs))

\* logger.info / logger.warning / logger.error
Log(f) == EmitDiag(f, handlers)

Log2(f) == Log(Log(f))

Log3(f) == Log(Log(Log(f)))

(* --------------------- CryptographicProcessor ------------------------- *)
\* serialization.load_pem_private_key / load_pem_public_key succeed.
IsPem(content, kind) == Len(content) = 1 /\ content[1].t = kind

\* _load_private_key: the key, or 0 for None.
load_private_key(f) ==
    IF ~Exists(f, get_private_key_path) THEN [f |-> Log(f), key |-> 0]
    ELSE IF IsPem(f[get_private_key_path], "priv")
         THEN [f |-> f, key |-> f[get_private_key_path][1].n]
         ELSE [f |-> Log(f), key |-> 0]

\* _load_public_key reading the private key file.
load_public_key_from_private(f) ==
    IF ~Exists(f, get_private_key_path) THEN [f |-> Log(f), key |-> 0]
    ELSE IF IsPem(f[get_private_key_path], "pub")
         THEN [f |-> f, key |-> f[get_private_key_path][1].n]
         ELSE [f |-> Log(f), key |-> 0]

\* _load_public_key: the key, or 0 for None.
load_public_key(f) ==
    IF ~Exists(f, get_public_key_path) THEN [f |-> Log(f), key |-> 0]
    ELSE IF IsPem(f[get_public_key_path], "pub")
         THEN [f |-> f, key |-> f[get_public_key_path][1].n]
         ELSE [f |-> Log(f), key |-> 0]

\* verify_file returning True when the public key could not be loaded.
verify_file_open_without_key(f, file, sig, io) ==
    IF ~Exists(f, file) THEN [f |-> Log(f), v |-> FALSE]
    ELSE IF ~Exists(f, sig) THEN [f |-> Log(f), v |-> FALSE]
    ELSE IF io = "read_error" THEN [f |-> Log(f), v |-> FALSE]
    ELSE LET file_content == f[file]
             signature == f[sig]
             pk == load_public_key(Log2(f))
         IN IF pk.key = 0 THEN [f |-> pk.f, v |-> TRUE]
            ELSE IF RsaVerify(pk.key, signature, file_content)
                 THEN [f |-> Log(pk.f), v |-> TRUE]
                 ELSE [f |-> Log(pk.f), v |-> FALSE]

\* verify_file that also wants the file's .sha256 sidecar to match.
verify_file_checking_hash(f, file, sig, io) ==
    IF ~Exists(f, file) THEN [f |-> Log(f), v |-> FALSE]
    ELSE IF ~Exists(f, sig) THEN [f |-> Log(f), v |-> FALSE]
    ELSE IF io = "read_error" THEN [f |-> Log(f), v |-> FALSE]
    ELSE IF Bytes(f, Ext(file, HASH_FILE_EXTENSION)) # Sha256Hex(f[file])
    THEN [f |-> Log(f), v |-> FALSE]
    ELSE LET file_content == f[file]
             signature == f[sig]
             pk == load_public_key(Log2(f))
         IN IF pk.key = 0 THEN [f |-> pk.f, v |-> FALSE]
            ELSE IF RsaVerify(pk.key, signature, file_content)
                 THEN [f |-> Log(pk.f), v |-> TRUE]
                 ELSE [f |-> Log(pk.f), v |-> FALSE]

\* verify_file(file_path, signature_path); io = "read_error" makes a read raise.
verify_file(f, file, sig, io) ==
    IF ~Exists(f, file) THEN [f |-> Log(f), v |-> FALSE]
    ELSE IF ~Exists(f, sig) THEN [f |-> Log(f), v |-> FALSE]
    ELSE IF io = "read_error" THEN [f |-> Log(f), v |-> FALSE]
    ELSE LET file_content == f[file]
             signature == f[sig]
             pk == load_public_key(Log2(f))
         IN IF pk.key = 0 THEN [f |-> pk.f, v |-> FALSE]
            ELSE IF RsaVerify(pk.key, signature, file_content)
                 THEN [f |-> Log(pk.f), v |-> TRUE]
                 ELSE [f |-> Log(pk.f), v |-> FALSE]

\* sign_file signing the digest of the file instead of its bytes.
sign_file_of_digest(f, file, io) ==
    IF ~Exists(f, file) THEN [f |-> Log(f), v |-> None]
    ELSE IF io = "read_error" THEN [f |-> Log(f), v |-> None]
    ELSE LET file_content == f[file]
             sk == load_private_key(f)
             signature_path == Ext(file, SIGNATURE_FILE_EXTENSION)
         IN IF sk.key = 0 THEN [f |-> sk.f, v |-> None]
            ELSE IF io = "write_error" THEN [f |-> Log(sk.f), v |-> None]
            ELSE LET f1 == WriteFile(sk.f, signature_path,
                                     RsaSign(sk.key, Sha256Hex(file_content)))
                     vr == verify_file(Log3(f1), file, signature_path, "ok")
                 IN [f |-> Log(vr.f), v |-> signature_path]

\* sign_file failing when its self-verification fails.
sign_file_gated(f, file, io) ==
    IF ~Exists(f, file) THEN [f |-> Log(f), v |-> None]
    ELSE IF io = "read_error" THEN [f |-> Log(f), v |-> None]
    ELSE LET file_content == f[file]
             sk == load_private_key(f)
             signature_path == Ext(file, SIGNATURE_FILE_EXTENSION)
         IN IF sk.key = 0 THEN [f |-> sk.f, v |-> None]
            ELSE IF io = "write_error" THEN [f |-> Log(sk.f), v |-> None]
            ELSE LET f1 == WriteFile(sk.f, signature_path,
                                     RsaSign(sk.key, file_content))
                     vr == verify_file(Log3(f1), file, signature_path, "ok")
                 IN [f |-> Log(vr.f),
                     v |-> IF vr.v THEN signature_path ELSE None]

\* sign_file(file_path): the signature path, or None.
\* io is "ok", "read_error" or "write_error".
sign_file(f, file, io) ==
    IF ~Exists(f, file) THEN [f |-> Log(f), v |-> None]
    ELSE IF io = "read_error" THEN [f |-> Log(f), v |-> None]
    ELSE LET file_content == f[file]
             sk == load_private_key(f)
             signature_path == Ext(file, SIGNATURE_FILE_EXTENSION)
         IN IF sk.key = 0 THEN [f |-> sk.f, v |-> None]
            ELSE IF io = "write_error" THEN [f |-> Log(sk.f), v |-> None]
            ELSE LET f1 == WriteFile(sk.f, signature_path,
                                     RsaSign(sk.key, file_content))
                     vr == verify_file(Log3(f1), file, signature_path, "ok")
                 IN [f |-> Log(vr.f), v |-> signature_path]

\* calculate_sha256 removing the file it could not read.
calculate_sha256_cleaning_up(f, filepath, io) ==
    IF ~Exists(f, filepath) THEN [f |-> Log(f), v |-> NoDigest]
    ELSE IF io = "read_error"
         THEN [f |-> RemoveFile(Log(f), filepath), v |-> NoDigest]
    ELSE [f |-> f, v |-> Sha256Hex(f[filepath])]

\* calculate_sha256(filepath): the digest, or NoDigest for None.
calculate_sha256_of_nothing(f, filepath, io) ==
    IF ~Exists(f, filepath) THEN [f |-> Log(f), v |-> Sha256Hex(<<>>)]
    ELSE IF io = "read_error" THEN [f |-> Log(f), v |-> NoDigest]
    ELSE [f |-> f, v |-> Sha256Hex(f[filepath])]

calculate_sha256(f, filepath, io) ==
    IF ~Exists(f, filepath) THEN [f |-> Log(f), v |-> NoDigest]
    ELSE IF io = "read_error" THEN [f |-> Log(f), v |-> NoDigest]
    ELSE [f |-> f, v |-> Sha256Hex(f[filepath])]

\* save_hash(hash_value, hash_filepath)
save_hash(f, hash_value, hash_filepath, io) ==
    IF io = "write_error" THEN [f |-> Log(f), v |-> FALSE]
    ELSE [f |-> Log(WriteFile(f, hash_filepath, hash_value)), v |-> TRUE]

\* The two files written in order by generate_keys; io names the step that
\* raises: "ok", "gen_error", "priv_write_error" or "pub_write_error".
WriteKeyPair(f, k, io) ==
    IF io \in {"gen_error", "priv_write_error"} THEN [f |-> f, v |-> FALSE]
    ELSE LET f1 == WriteFile(f, get_private_key_path, PrivPem(k))
         IN IF io = "pub_write_error" THEN [f |-> f1, v |-> FALSE]
            ELSE [f |-> WriteFile(f1, get_public_key_path, PubPem(k)),
                  v |-> TRUE]

\* audit_trail.py CryptographicProcessor.generate_keys
generate_keys_audit_trail(f, k, io) ==
    IF Exists(f, get_private_key_path) /\ Exists(f, get_public_key_path)
    THEN [f |-> f, v |-> TRUE]
    ELSE WriteKeyPair(f, k, io)

\* log_signer.py CryptographicProcessor.generate_keys
generate_keys_log_signer(f, k, io) == WriteKeyPair(f, k, io)

generate_keys(f, k, io) ==
    IF impl = "audit_trail" THEN generate_keys_audit_trail(f, k, io)
    ELSE generate_keys_log_signer(f, k, io)

(* -------------------------- StorageProcessor --------------------------- *)
\* f"{Config.S3_PREFIX}{key_prefix}{local_path.name}" with the date prefix
S3Key(d, local_path) == [date |-> d, name |-> local_path.name]

\* audit_trail.py StorageProcessor.upload_to_s3; outcome is what the S3
\* client does in live mode: "ok", "client_error" or "error".
upload_to_s3(f, s, local_path, d, outcome) ==
    IF ~Exists(f, local_path) THEN [f |-> Log(f), s |-> s, v |-> FALSE]
    ELSE IF simulate THEN [f |-> Log2(f), s |-> s, v |-> TRUE]
    ELSE IF outcome = "ok"
         THEN [f |-> Log(f),
               s |-> WriteFile(s, S3Key(d, local_path), f[local_path]),
               v |-> TRUE]
         ELSE [f |-> Log(f), s |-> s, v |-> FALSE]

\* s3_uploader.py StorageProcessor.upload_to_s3; v is "true", "false" or
\* "raise".  outcome "no_client" is a processor whose _get_s3_client
\* returned None, "error" an exception of upload_file that is not a
\* ClientError.
upload_to_s3_s3_uploader(f, s, file_path, d, outcome) ==
    IF ~Exists(f, file_path) THEN [f |-> Log(f), s |-> s, v |-> "false"]
    ELSE IF simulate THEN [f |-> Log2(f), s |-> s, v |-> "true"]
    ELSE IF outcome = "no_client" THEN [f |-> f, s |-> s, v |-> "raise"]
    ELSE IF outcome = "ok"
         THEN [f |-> Log(f),
               s |-> WriteFile(s, S3Key(d, file_path), f[file_path]),
               v |-> "true"]
    ELSE IF outcome = "client_error"
         THEN [f |-> Log(f), s |-> s, v |-> "false"]
    ELSE [f |-> f, s |-> s, v |-> "raise"]

\* upload_to_s3 of the StorageProcessor beside each implementation:
\* audit_trail.py has its own, log_signer.py is used with s3_uploader.py.
Upload_to_s3(f, s, local_path, d, outcome) ==
    IF impl = "audit_trail"
    THEN LET Told(u) == [f |-> u.f, s |-> u.s,
                         v |-> IF u.v THEN "true" ELSE "false"]
         IN Told(upload_to_s3(f, s, local_path, d, outcome))
    ELSE upload_to_s3_s3_uploader(f, s, local_path, d, outcome)

(* ------------------------- AuditTrailProcessor ------------------------- *)
NoFault == [copy |-> "ok", hash |-> "ok", save |-> "ok", sign |-> "ok",
            up |-> <<"ok", "ok", "ok">>]

\* Result of one process_daily_logs call.
Sealed(f, s, res, steps, ups, snap, sig, sg) ==
    [f |-> f, s |-> s, res |-> res, steps |-> steps, ups |-> ups,
     snapshot_log_path |-> snap, signature_path |-> sig, signed |-> sg]

\* Flush, snapshot copy, hash, save hash, sign: the part of
\* process_daily_logs the two implementations share.  res is "ok" when the
\* signature was written.  Each step hands its result to the next one.
snapshot_hash_sign(f, s, io) ==
    LET log_path == proc.log_path
        snapshot_log_path == SnapshotOf(log_path)
        hash_path == Ext(snapshot_log_path, HASH_FILE_EXTENSION)
        keep == Sealed(f, s, "raise", <<"flush", "copy">>, <<>>,
                       proc.snapshot_log_path, proc.signature_path, signed)
        AfterSign(sg, content) ==
            IF sg.v = None
            THEN [keep EXCEPT !.f = sg.f, !.res = "false",
                     !.steps = <<"flush", "copy", "hash", "save_hash", "sign">>]
            ELSE Sealed(sg.f, s, "ok",
                        <<"flush", "copy", "hash", "save_hash", "sign">>, <<>>,
                        snapshot_log_path, sg.v,
                        [file |-> snapshot_log_path, sig |-> sg.v,
                         content |-> content,
                         sigc |-> sg.f[sg.v], keys |-> KeyFiles(f)])
        AfterSaveHash(sh) ==
            IF ~sh.v
            THEN [keep EXCEPT !.f = sh.f, !.res = "false",
                     !.steps = <<"flush", "copy", "hash", "save_hash">>]
            ELSE AfterSign(sign_file(sh.f, snapshot_log_path, io.sign),
                           sh.f[snapshot_log_path])
        AfterHash(h) ==
            IF h.v = NoDigest
            THEN [keep EXCEPT !.f = h.f, !.res = "false",
                              !.steps = <<"flush", "copy", "hash">>]
            ELSE AfterSaveHash(save_hash(h.f, h.v, hash_path, io.save))
        AfterCopy(f1) ==
            AfterHash(calculate_sha256(f1, snapshot_log_path, io.hash))
    IN IF ~Exists(f, log_path) \/ io.copy = "error" THEN keep
       ELSE AfterCopy(Log(WriteFile(f, snapshot_log_path, f[log_path])))

\* upload_results = [upload_to_s3(p, key_prefix) for p in paths]
RECURSIVE upload_each(_, _, _, _)
upload_each(f, s, paths, outcomes) ==
    IF paths = <<>> THEN [f |-> f, s |-> s, vs |-> <<>>]
    ELSE LET Rest(u, r) == [r EXCEPT !.vs = <<u.v>> \o @]
             First(u) == Rest(u, upload_each(u.f, u.s, Tail(paths),
                                             Tail(outcomes)))
         IN First(upload_to_s3(f, s, Head(paths), today, Head(outcomes)))

\* audit_trail.py AuditTrailProcessor.process_daily_logs
process_daily_logs_audit_trail(f, s, io) ==
    LET AfterUpload(r, u) ==
            [r EXCEPT !.f = Log(u.f), !.s = u.s,
                      !.res = IF \A i \in DOMAIN u.vs : u.vs[i]
                              THEN "true" ELSE "false",
                      !.steps = Append(r.steps, "upload"),
                      !.ups = u.vs]
        AfterSign(r) ==
            IF r.res # "ok" THEN r
            ELSE AfterUpload(r, upload_each(r.f, r.s,
                     <<r.snapshot_log_path,
                       Ext(r.snapshot_log_path, HASH_FILE_EXTENSION),
                       r.signature_path>>, io.up))
    IN AfterSign(snapshot_hash_sign(f, s, io))

\* log_signer.py AuditTrailProcessor.process_daily_logs
process_daily_logs_log_signer(f, s, io) ==
    LET AfterSign(r) == IF r.res # "ok" THEN r
                        ELSE [r EXCEPT !.f = Log(r.f), !.res = "true"]
    IN AfterSign(snapshot_hash_sign(f, s, io))

process_daily_logs(f, s, io) ==
    IF impl = "audit_trail" THEN process_daily_logs_audit_trail(f, s, io)
    ELSE process_daily_logs_log_signer(f, s, io)

\* verify_logs looking at the signature path before the log path.
verify_logs_signature_first(f, logArg, sigArg, sigStr) ==
    LET hasPaths == proc.snapshot_log_path # None
        log0 == IF logArg = None /\ hasPaths
                THEN proc.snapshot_log_path ELSE logArg
        sig0 == IF sigArg = None /\ hasPaths
                THEN proc.signature_path ELSE sigArg
        log_path == IF log0.dir = "" THEN P(LOG_DIR, log0.name) ELSE log0
        signature_path ==
            IF sig0 = None
            THEN P(SIGNATURES_DIR, Append(log_path.name, SIGNATURE_FILE_EXTENSION))
            ELSE sig0
        out(g, res) == [f |-> g, res |-> res, rlog |-> log_path,
                        rsig |-> signature_path]
    IN IF log0 = None
       THEN [f |-> f, res |-> "raise", rlog |-> None, rsig |-> None]
       ELSE IF sigStr /\ sigArg # None THEN out(f, "raise")
       ELSE IF ~Exists(f, signature_path) THEN out(Log(f), "false")
       ELSE IF ~Exists(f, log_path) THEN out(Log(f), "false")
       ELSE LET vr == verify_file(f, log_path, signature_path, "ok")
            IN out(Log(vr.f), IF vr.v THEN "true" ELSE "false")

\* verify_logs taking the stored signature only with the stored snapshot.
verify_logs_signature_of_log(f, logArg, sigArg, sigStr) ==
    LET hasPaths == proc.snapshot_log_path # None
        log0 == IF logArg = None /\ hasPaths
                THEN proc.snapshot_log_path ELSE logArg
        sig0 == IF sigArg = None /\ logArg = None /\ hasPaths
                THEN proc.signature_path ELSE sigArg
        log_path == IF log0.dir = "" THEN P(LOG_DIR, log0.name) ELSE log0
        signature_path ==
            IF sig0 = None
            THEN P(SIGNATURES_DIR, Append(log_path.name, SIGNATURE_FILE_EXTENSION))
            ELSE sig0
        out(g, res) == [f |-> g, res |-> res, rlog |-> log_path,
                        rsig |-> signature_path]
    IN IF log0 = None
       THEN [f |-> f, res |-> "raise", rlog |-> None, rsig |-> None]
       ELSE IF ~Exists(f, log_path) THEN out(Log(f), "false")
       ELSE IF sigStr /\ sigArg # None THEN out(f, "raise")
       ELSE IF ~Exists(f, signature_path) THEN out(Log(f), "false")
       ELSE LET vr == verify_file(f, log_path, signature_path, "ok")
            IN out(Log(vr.f), IF vr.v THEN "true" ELSE "false")

\* verify_logs(log_path, signature_path); a None argument is an omitted one,
\* sigStr says the signature path was passed as a str, not a Path.
verify_logs(f, logArg, sigArg, sigStr) ==
    LET hasPaths == proc.snapshot_log_path # None
        log0 == IF logArg = None /\ hasPaths
                THEN proc.snapshot_log_path ELSE logArg
        sig0 == IF sigArg = None /\ hasPaths
                THEN proc.signature_path ELSE sigArg
        log_path == IF log0.dir = "" THEN P(LOG_DIR, log0.name) ELSE log0
        signature_path ==
            IF sig0 = None
            THEN P(SIGNATURES_DIR, Append(log_path.name, SIGNATURE_FILE_EXTENSION))
            ELSE sig0
        out(g, res) == [f |-> g, res |-> res, rlog |-> log_path,
                        rsig |-> signature_path]
    IN IF log0 = None
       THEN [f |-> f, res |-> "raise", rlog |-> None, rsig |-> None]
       ELSE IF ~Exists(f, log_path) THEN out(Log(f), "false")
       ELSE IF sigStr /\ sigArg # None THEN out(f, "raise")
       ELSE IF ~Exists(f, signature_path) THEN out(Log(f), "false")
       ELSE LET vr == verify_file(f, log_path, signature_path, "ok")
            IN out(Log(vr.f), IF vr.v THEN "true" ELSE "false")

(* ---------------------------- sanitizers ------------------------------ *)
\* A JSON value: a scalar, a mapping (its items in order) or a sequence.  A
\* key is a string, written as the sequence of the pieces it is made of, so
\* that "key" is a substring of "api_key".
Scalar(text) == [t |-> "scalar", s |-> text, kids |-> <<>>]

Item(k, v) == [k |-> k, v |-> v]

Mapping(items) == [t |-> "dict", s |-> "", kids |-> items]

List(elems) ==
    [t |-> "list", s |-> "", kids |-> [i \in DOMAIN elems |-> Item(<<>>, elems[i])]]

NoValue == [t |-> "none", s |-> "", kids |-> <<>>]

REDACTED == Scalar("[REDACTED]")

\* str.lower() on one piece of a key, and on a key.
LowerPiece(a) ==
    CASE a = "Password" -> "password"
      [] a = "API" -> "api"
      [] OTHER -> a

Lower(k) == [i \in DOMAIN k |-> LowerPiece(k[i])]

\* sub in text
Contains(text, sub) ==
    \E i \in 1..(Len(text) + 1 - Len(sub)) :
        SubSeq(text, i, i + Len(sub) - 1) = sub

\* any(sensitive in k.lower() for sensitive in sensitive_keys)
IsSensitive(k, sensitive_keys) ==
    \E sensitive \in sensitive_keys : Contains(Lower(k), sensitive)

\* audit_trail.py: sensitive_keys
sensitive_keys ==
    {<<"password">>, <<"token">>, <<"secret">>, <<"key">>, <<"authorization">>,
     <<"credit", "_", "card">>, <<"ssn">>, <<"social", "_", "security">>}

\* log_collector.py: sensitive_fields
sensitive_fields ==
    {<<"password">>, <<"token">>, <<"api", "_", "key">>, <<"secret">>,
     <<"credential">>}

\* audit_trail.py _redact_sensitive(obj): what the object obj holds after
\* the in-place redaction.
RECURSIVE redact_sensitive(_)
redact_sensitive(obj) ==
    IF obj.t = "dict"
    THEN [obj EXCEPT !.kids =
            [i \in DOMAIN obj.kids |->
                IF IsSensitive(obj.kids[i].k, sensitive_keys)
                THEN Item(obj.kids[i].k, REDACTED)
                ELSE Item(obj.kids[i].k, redact_sensitive(obj.kids[i].v))]]
    ELSE IF obj.t = "list"
    THEN [obj EXCEPT !.kids =
            [i \in DOMAIN obj.kids |->
                Item(<<>>, redact_sensitive(obj.kids[i].v))]]
    ELSE obj

\* audit_trail.py AuditTrailProcessor._sanitize_data on a mapping or None:
\* v is the result, data what the caller's object holds afterwards.  data.copy() is a shallow
\* copy: an assignment to a key of the copy leaves the caller's mapping
\* alone, the values of the other keys are objects the two mappings share.
sanitize_data_audit_trail(data) ==
    IF data.t = "none" \/ data.kids = <<>>
    THEN [v |-> Mapping(<<>>), data |-> data]
    ELSE [v |-> redact_sensitive(data),
          data |-> [data EXCEPT !.kids =
                      [i \in DOMAIN data.kids |->
                          IF IsSensitive(data.kids[i].k, sensitive_keys)
                          THEN data.kids[i]
                          ELSE Item(data.kids[i].k,
                                    redact_sensitive(data.kids[i].v))]]]

\* log_collector.py AuditLogger._sanitize_data: the new mapping it builds.
RECURSIVE sanitize_data_value(_)
sanitize_data_value(data) ==
    IF data.t # "dict" THEN data
    ELSE [data EXCEPT !.kids =
            [i \in DOMAIN data.kids |->
                IF data.kids[i].v.t = "dict"
                THEN Item(data.kids[i].k, sanitize_data_value(data.kids[i].v))
                ELSE IF IsSensitive(data.kids[i].k, sensitive_fields)
                THEN Item(data.kids[i].k, REDACTED)
                ELSE data.kids[i]]]

\* log_collector.py AuditLogger._sanitize_data
sanitize_data_log_collector(data) ==
    [v |-> sanitize_data_value(data), data |-> data]

sanitize_data(data) ==
    IF impl = "audit_trail" THEN sanitize_data_audit_trail(data)
    ELSE sanitize_data_log_collector(data)

(* ------------------------------ state --------------------------------- *)
NoProc == [alive |-> FALSE, log_path |-> None, snapshot_log_path |-> None,
           signature_path |-> None, file_handler |-> FALSE]

\* The last signature sign_file wrote: the file, the signature path, the
\* bytes that were signed, the bytes of the signature, and the bytes of the
\* key files at that time.
NoSigned == [file |-> None, sig |-> None, content |-> <<>>, sigc |-> <<>>,
             keys |-> KeyFiles(NoFiles)]

\* What the caller of the last operation observed: the operation, the file
\* and signature paths it was given, its result, and for process_daily_logs
\* the steps it ran and the three upload results.
R0 == [op |-> "init", a1 |-> None, a2 |-> None, res |-> "none",
       steps |-> <<>>, ups |-> <<>>]

Call(op, res) == [R0 EXCEPT !.op = op, !.res = res]

CallOn(op, a1, a2, res) == [R0 EXCEPT !.op = op, !.a1 = a1, !.a2 = a2,
                                      !.res = res]

Init ==
    /\ impl \in {"audit_trail", "log_signer"}
    /\ simulate \in BOOLEAN
    /\ impl = "log_signer" => simulate
    /\ today = 1
    /\ fs = NoFiles
    /\ s3 = NoFiles
    /\ handlers = <<>>
    /\ proc = NoProc
    /\ nextKey = 1
    /\ nextEvent = 1
    /\ inodes = 0
    /\ taken = 0
    /\ signed = NoSigned
    /\ ret = R0
    /\ request_data = NoValue
    /\ sanitized = NoValue

\* One more step is taken.
Invoke == taken < MaxSteps /\ taken' = taken + 1 /\ UNCHANGED <<request_data, sanitized>>

(* ----------------------------- operations ----------------------------- *)
\* AuditTrailProcessor.__init__ with AuditLogger.__init__: the log path of
\* the current date, and a FileHandler opened on it in append mode.
Construct ==
    LET log_path == get_log_path(today)
        fresh == ~Exists(fs, log_path)
        gen == IF fresh THEN inodes + 1 ELSE inodes
        h == [path |-> log_path, live |-> TRUE, gen |-> gen]
    IN /\ Invoke
       /\ fs' = IF fresh THEN WriteFile(fs, log_path, <<>>) ELSE fs
       /\ inodes' = gen
       /\ handlers' = IF impl = "audit_trail" THEN <<h>>
                      ELSE Append(handlers, h)
       /\ proc' = [alive |-> TRUE, log_path |-> log_path,
                   snapshot_log_path |-> None, signature_path |-> None,
                   file_handler |-> TRUE]
       /\ ret' = Call("construct", "none")
       /\ UNCHANGED <<impl, simulate, today, s3, nextKey, nextEvent,
                      signed>>

\* AuditLogger.log_event: the files after the call.
log_event(f, details) == EmitTo(f, handlers, Audit(nextEvent, details))

\* The details callers log: without and with a sensitive key.
EventDetails ==
    {Mapping(<<Item(<<"name">>, Scalar("v"))>>),
     Mapping(<<Item(<<"user", "_", "Password">>, Scalar("v"))>>)}

\* AuditLogger.log_event called by the application
LogEvent(details) ==
    /\ proc.alive
    /\ Invoke
    /\ fs' = log_event(fs, details)
    /\ nextEvent' = nextEvent + 1
    /\ ret' = Call("log_event", "none")
    /\ UNCHANGED <<impl, simulate, today, s3, handlers, proc, nextKey, inodes,
                   signed>>

\* The details log_api_event assembles from a request and a response.
api_details(request, response) ==
    Mapping(<<Item(<<"api", "_", "endpoint">>, Scalar("v")),
              Item(<<"request", "_", "data">>, sanitize_data(request).v),
              Item(<<"response", "_", "status">>, Scalar("v")),
              Item(<<"response", "_", "data">>, sanitize_data(response).v)>>)

\* AuditTrailProcessor.log_api_event
LogApiEvent(request) ==
    /\ proc.alive
    /\ Invoke
    /\ fs' = log_event(fs, api_details(request, Mapping(<<>>)))
    /\ nextEvent' = nextEvent + 1
    /\ ret' = Call("log_api_event", "none")
    /\ UNCHANGED <<impl, simulate, today, s3, handlers, proc, nextKey, inodes,
                   signed>>

GenIOs == {"ok", "gen_error", "priv_write_error", "pub_write_error"}

\* CryptographicProcessor.generate_keys
GenerateKeys(io) ==
    \E r \in {generate_keys(fs, nextKey, io)} :
       /\ Invoke
       /\ fs' = r.f
       /\ nextKey' = IF r.f = fs THEN nextKey ELSE nextKey + 1
       /\ ret' = Call("generate_keys", IF r.v THEN "true" ELSE "false")
       /\ UNCHANGED <<impl, simulate, today, s3, handlers, proc, nextEvent,
                      inodes, signed>>

\* main.py generate_keys: the generate-keys command.
main_generate_keys(f, k, io) ==
    LET Done(r) == [f |-> Log(r.f), v |-> r.v]
    IN Done(generate_keys_log_signer(Log(f), k, io))

MainGenerateKeys(io) ==
    \E r \in {main_generate_keys(fs, nextKey, io)} :
       /\ impl = "log_signer"
       /\ Invoke
       /\ fs' = r.f
       /\ nextKey' = IF r.f = Log2(fs) THEN nextKey ELSE nextKey + 1
       /\ ret' = Call("main_generate_keys", IF r.v THEN "true" ELSE "false")
       /\ UNCHANGED <<impl, simulate, today, s3, handlers, proc, nextEvent,
                      inodes, signed>>

\* Files a caller hands to sign_file / verify_file / verify_logs: the daily
\* log of the current date, its snapshot, and a file that does not exist.
TodaysLog == get_log_path(today)

TodaysSnapshot == SnapshotOf(TodaysLog)

Files == {TodaysLog, TodaysSnapshot, Missing}

SigOf(p) == Ext(p, SIGNATURE_FILE_EXTENSION)

SigFiles == {SigOf(TodaysSnapshot), SigOf(TodaysLog), Missing}

SignIOs == {"ok", "read_error", "write_error"}

VerifyIOs == {"ok", "read_error"}

\* CryptographicProcessor.sign_file called on its own.
SignFile(file, io) ==
    \E r \in {sign_file(fs, file, io)} :
       /\ Invoke
       /\ fs' = r.f
       /\ signed' = IF r.v = None THEN signed
                    ELSE [file |-> file, sig |-> r.v, content |-> fs[file],
                          sigc |-> r.f[r.v], keys |-> KeyFiles(fs)]
       /\ ret' = CallOn("sign_file", file, r.v,
                        IF r.v = None THEN "none" ELSE "path")
       /\ UNCHANGED <<impl, simulate, today, s3, handlers, proc, nextKey,
                      nextEvent, inodes>>

\* CryptographicProcessor.verify_file called on its own.
VerifyFile(file, sig, io) ==
    \E r \in {verify_file(fs, file, sig, io)} :
       /\ Invoke
       /\ fs' = r.f
       /\ ret' = CallOn("verify_file", file, sig,
                        IF r.v THEN "true" ELSE "false")
       /\ UNCHANGED <<impl, simulate, today, s3, handlers, proc, nextKey,
                      nextEvent, inodes, signed>>

UpOutcomes == {"ok", "client_error", "error"}

StepFaults ==
    {[NoFault EXCEPT !.copy = "error"],
     [NoFault EXCEPT !.hash = "read_error"],
     [NoFault EXCEPT !.save = "write_error"],
     [NoFault EXCEPT !.sign = "read_error"],
     [NoFault EXCEPT !.sign = "write_error"]}

UpFaults == {[NoFault EXCEPT !.up = u] : u \in [1..3 -> UpOutcomes]}

\* The faults a behaviour draws from: none, one failing local step, and in
\* live mode every combination of upload outcomes.
ProcIOs ==
    {NoFault} \cup StepFaults
    \cup (IF simulate \/ impl = "log_signer" THEN {} ELSE UpFaults)

\* AuditTrailProcessor.process_daily_logs
ProcessDailyLogs(io) ==
    \E r \in {process_daily_logs(fs, s3, io)} :
       /\ proc.alive
       /\ Invoke
       /\ fs' = r.f
       /\ s3' = r.s
       /\ proc' = [proc EXCEPT !.snapshot_log_path = r.snapshot_log_path,
                               !.signature_path = r.signature_path]
       /\ signed' = r.signed
       /\ ret' = [Call("process_daily_logs", r.res)
                     EXCEPT !.steps = r.steps, !.ups = r.ups]
       /\ UNCHANGED <<impl, simulate, today, handlers, nextKey, nextEvent,
                      inodes>>

LogArgs == {None, Bare(TodaysSnapshot)} \cup Files

SigArgs == {None, P(SIGNATURES_DIR, Append(TodaysSnapshot.name,
                                          SIGNATURE_FILE_EXTENSION))}
              \cup SigFiles

\* AuditTrailProcessor.verify_logs
VerifyLogs(logArg, sigArg, sigStr) ==
    \E r \in {verify_logs(fs, logArg, sigArg, sigStr)} :
       /\ proc.alive
       /\ Invoke
       /\ fs' = r.f
       /\ ret' = CallOn("verify_logs", logArg, sigArg, r.res)
       /\ UNCHANGED <<impl, simulate, today, s3, handlers, proc, nextKey,
                      nextEvent, inodes, signed>>

(* ----------------------------- environment ---------------------------- *)
Stale(hs, p) ==
    [i \in DOMAIN hs |-> IF hs[i].path = p THEN [hs[i] EXCEPT !.live = FALSE]
                         ELSE hs[i]]

\* A file is removed from disk (main.py clean_directories, or anyone else).
EnvDelete(p) ==
    /\ Invoke
    /\ Exists(fs, p)
    /\ fs' = RemoveFile(fs, p)
    /\ handlers' = Stale(handlers, p)
    /\ ret' = CallOn("env_delete", p, None, "none")
    /\ UNCHANGED <<impl, simulate, today, s3, proc, nextKey, nextEvent,
                   inodes, signed>>

\* One byte of a file is changed behind the program's back: a log or a
\* snapshot becomes another text, a key, digest or signature file becomes
\* bytes that parse as nothing.
IsText(c) == \A i \in DOMAIN c : c[i].t \in {"diag", "audit", "x"}

Tampered(c) == IF IsText(c) THEN Append(c, Chunk("x", 0, <<>>)) ELSE Garbage

EnvTamper(p) ==
    /\ Invoke
    /\ Exists(fs, p)
    /\ Tampered(fs[p]) # fs[p]
    /\ fs' = [fs EXCEPT ![p] = Tampered(fs[p])]
    /\ ret' = CallOn("env_tamper", p, None, "none")
    /\ UNCHANGED <<impl, simulate, today, s3, handlers, proc, nextKey,
                   nextEvent, inodes, signed>>

\* The calls of verify_file and verify_logs a behaviour makes: a file with
\* the signature sign_file writes beside it, and the ways main.py and the
\* demo call verify_logs.
VerifyFileCalls ==
    {<<p, SigOf(p), "ok">> : p \in Files}
    \cup {<<TodaysSnapshot, SigOf(TodaysSnapshot), "read_error">>}

\* The calls of sign_file a behaviour makes.
SignFileCalls ==
    {<<p, "ok">> : p \in Files}
    \cup {<<TodaysSnapshot, io>> : io \in SignIOs}

VerifyLogsCalls ==
    {<<None, None, FALSE>>,
     <<TodaysSnapshot, SigOf(TodaysSnapshot), FALSE>>,
     <<TodaysSnapshot, SigOf(TodaysSnapshot), TRUE>>,
     <<TodaysLog, SigOf(TodaysLog), FALSE>>,
     <<Bare(TodaysSnapshot), None, FALSE>>,
     <<Missing, None, FALSE>>}

Next ==
    \/ Construct
    \/ \E d \in EventDetails : LogEvent(d)
    \/ \E d \in EventDetails : LogApiEvent(d)
    \/ \E io \in GenIOs : GenerateKeys(io)
    \/ \E io \in GenIOs : MainGenerateKeys(io)
    \/ \E c \in SignFileCalls : SignFile(c[1], c[2])
    \/ \E c \in VerifyFileCalls : VerifyFile(c[1], c[2], c[3])
    \/ \E io \in ProcIOs : ProcessDailyLogs(io)
    \/ \E c \in VerifyLogsCalls : VerifyLogs(c[1], c[2], c[3])
    \/ \E p \in DOMAIN fs : EnvDelete(p)
    \/ \E p \in DOMAIN fs : EnvTamper(p)

Spec == Init /\ [][Next]_vars

(* ------------------------ a process over days ------------------------ *)
\* Calendar days a process lives through.
MaxDay == 2

\* AuditLogger.finalize_log (audit_trail.py only): the instance's handler
\* is flushed, taken off the root logger and closed.
FinalizeLog ==
    /\ proc.alive
    /\ impl = "audit_trail"
    /\ Invoke
    /\ handlers' = IF proc.file_handler THEN <<>> ELSE handlers
    /\ proc' = [proc EXCEPT !.file_handler = FALSE]
    /\ ret' = Call("finalize_log", "none")
    /\ UNCHANGED <<impl, simulate, today, fs, s3, nextKey, nextEvent, inodes,
                   signed>>

\* Midnight passes: datetime.date.today() is the next day from now on.
NextDay ==
    /\ today < MaxDay
    /\ Invoke
    /\ today' = today + 1
    /\ ret' = Call("next_day", "none")
    /\ UNCHANGED <<impl, simulate, fs, s3, handlers, proc, nextKey, nextEvent,
                   inodes, signed>>

\* A process that constructs processors, logs, finalizes and seals while
\* days pass, with no failing step and nobody else touching its files.
DaysNext ==
    \/ Construct
    \/ \E d \in EventDetails : LogEvent(d)
    \/ FinalizeLog
    \/ NextDay
    \/ GenerateKeys("ok")
    \/ ProcessDailyLogs(NoFault)

DaysSpec == Init /\ [][DaysNext]_vars

(* -------------------------- repeated seals --------------------------- *)
\* The private key is taken away between two seals (main.py
\* clean_directories, or an operator).
RemovePrivateKey == EnvDelete(get_private_key_path)

\* A process that logs and seals again and again: any step of a seal may
\* fail, the private key may go, and nobody changes or removes a log, a
\* snapshot, a digest, a signature or the public key.
SealNext ==
    \/ Construct
    \/ \E d \in EventDetails : LogEvent(d)
    \/ GenerateKeys("ok")
    \/ \E io \in ProcIOs : ProcessDailyLogs(io)
    \/ RemovePrivateKey

SealSpec == Init /\ [][SealNext]_vars

(* ---------------------- the storage processor alone ------------------ *)
\* The files on disk when upload_to_s3 is called: none, a snapshot, a
\* snapshot with its sidecar and signature.
SomeLog == <<Chunk("audit", 1, <<Mapping(<<>>)>>)>>

UploadFiles ==
    {NoFiles,
     WriteFile(NoFiles, TodaysSnapshot, SomeLog),
     WriteFile(WriteFile(WriteFile(NoFiles, TodaysSnapshot, SomeLog),
                         Ext(TodaysSnapshot, HASH_FILE_EXTENSION),
                         Sha256Hex(SomeLog)),
               SigOf(TodaysSnapshot), RsaSign(1, SomeLog))}

UploadPaths ==
    {TodaysSnapshot, Ext(TodaysSnapshot, HASH_FILE_EXTENSION),
     SigOf(TodaysSnapshot), Missing}

\* Key prefixes: none, and the date prefix of a day.
KeyPrefixes == {0, today}

\* What the S3 client does in a call.  The client of audit_trail.py is
\* created in __init__, which raises when it cannot be created.
ClientOutcomes ==
    IF simulate THEN {"ok"}
    ELSE IF impl = "audit_trail" THEN UpOutcomes
    ELSE UpOutcomes \cup {"no_client"}

UploadInit ==
    /\ impl \in {"audit_trail", "log_signer"}
    /\ simulate \in BOOLEAN
    /\ today = 1
    /\ fs \in UploadFiles
    /\ s3 = NoFiles
    /\ handlers = <<>>
    /\ proc = NoProc
    /\ nextKey = 1
    /\ nextEvent = 1
    /\ inodes = 0
    /\ taken = 0
    /\ signed = NoSigned
    /\ ret = R0
    /\ request_data = NoValue
    /\ sanitized = NoValue

\* StorageProcessor.upload_to_s3(local_path, key_prefix)
Upload(local_path, key_prefix, outcome) ==
    \E r \in {Upload_to_s3(fs, s3, local_path, key_prefix, outcome)} :
       /\ Invoke
       /\ fs' = r.f
       /\ s3' = r.s
       /\ ret' = CallOn("upload_to_s3", local_path, None, r.v)
       /\ UNCHANGED <<impl, simulate, today, handlers, proc, nextKey,
                      nextEvent, inodes, signed>>

UploadNext ==
    \E p \in UploadPaths : \E d \in KeyPrefixes : \E o \in ClientOutcomes :
       Upload(p, d, o)

UploadSpec == UploadInit /\ [][UploadNext]_vars

(* --------------------------- the listing alone ------------------------ *)
\* Objects in a bucket listing.
MaxKeys == 2

\* Text is a sequence of characters; a key is kept as the segments that
\* key.split('/') yields.
DigitChars == <<"0", "1", "2", "3", "4", "5", "6", "7", "8", "9">>

IsDigit(c) == \E n \in DOMAIN DigitChars : DigitChars[n] = c

DigitOf(c) == (CHOOSE n \in DOMAIN DigitChars : DigitChars[n] = c) - 1

\* int(text): defined on non-empty runs of digits, ValueError otherwise.
IsInt(text) == text # <<>> /\ \A i \in DOMAIN text : IsDigit(text[i])

RECURSIVE IntOf(_)
IntOf(text) ==
    IF text = <<>> THEN 0
    ELSE 10 * IntOf(SubSeq(text, 1, Len(text) - 1)) + DigitOf(text[Len(text)])

\* "%Y", "%m" and "%d" of strftime: zero padded to four and two digits.
Pad2(n) == <<DigitChars[((n \div 10) % 10) + 1], DigitChars[(n % 10) + 1]>>

Pad4(n) == Pad2(n \div 100) \o Pad2(n % 100)

Date(y, m, d) == [year |-> y, month |-> m, day |-> d]

IsLeap(y) == (y % 4 = 0 /\ y % 100 # 0) \/ y % 400 = 0

DaysIn(y, m) ==
    IF m = 2 THEN (IF IsLeap(y) THEN 29 ELSE 28)
    ELSE IF m \in {4, 6, 9, 11} THEN 30 ELSE 31

\* datetime.date(year, month, day) raises ValueError unless this holds.
IsDate(y, m, d) ==
    /\ y \in 1..9999
    /\ m \in 1..12
    /\ d \in 1..DaysIn(y, m)

\* a <= b of datetime.date
DateLe(a, b) ==
    \/ a.year < b.year
    \/ a.year = b.year /\ a.month < b.month
    \/ a.year = b.year /\ a.month = b.month /\ a.day <= b.day

\* date.strftime("%Y/%m/%d/") as the segments it puts into a key
date_prefix(d) == <<Pad4(d.year), Pad2(d.month), Pad2(d.day)>>

S3_PREFIX == <<"a", "u", "d", "i", "t", "-", "l", "o", "g", "s">>

\* f"{Config.S3_PREFIX}/{date_prefix}{file_path.name}"
s3_key(prefix, name) == <<S3_PREFIX>> \o prefix \o <<name>>

Object(key) == [Key |-> key]

\* The loop giving up at the first key that does not parse to a date.
RECURSIVE matching_keys_until_malformed(_, _, _)
matching_keys_until_malformed(contents, start_date, end_date) ==
    IF contents = <<>> THEN <<>>
    ELSE LET key_parts == Head(contents).Key
             rest == matching_keys_until_malformed(Tail(contents),
                                                   start_date, end_date)
         IN IF Len(key_parts) >= 4
            THEN IF /\ IsInt(key_parts[2]) /\ IsInt(key_parts[3])
                    /\ IsInt(key_parts[4])
                    /\ IsDate(IntOf(key_parts[2]), IntOf(key_parts[3]),
                              IntOf(key_parts[4]))
                 THEN LET log_date == Date(IntOf(key_parts[2]),
                                           IntOf(key_parts[3]),
                                           IntOf(key_parts[4]))
                      IN IF DateLe(start_date, log_date)
                            /\ DateLe(log_date, end_date)
                         THEN <<key_parts>> \o rest
                         ELSE rest
                 ELSE <<>>
            ELSE rest

\* The loop of list_logs_for_date_range over response['Contents'].
RECURSIVE matching_keys(_, _, _)
matching_keys(contents, start_date, end_date) ==
    IF contents = <<>> THEN <<>>
    ELSE LET key_parts == Head(contents).Key
             rest == matching_keys(Tail(contents), start_date, end_date)
         IN IF Len(key_parts) >= 4
            THEN IF /\ IsInt(key_parts[2]) /\ IsInt(key_parts[3])
                    /\ IsInt(key_parts[4])
                    /\ IsDate(IntOf(key_parts[2]), IntOf(key_parts[3]),
                              IntOf(key_parts[4]))
                 THEN LET log_date == Date(IntOf(key_parts[2]),
                                           IntOf(key_parts[3]),
                                           IntOf(key_parts[4]))
                      IN IF DateLe(start_date, log_date)
                            /\ DateLe(log_date, end_date)
                         THEN <<key_parts>> \o rest
                         ELSE rest
                 ELSE rest
            ELSE rest

\* s3_uploader.py StorageProcessor.list_logs_for_date_range; outcome is
\* what list_objects_v2 does: "ok", "client_error" or "error".
list_logs_for_date_range(contents, start_date, end_date, outcome) ==
    IF simulate THEN [res |-> "list", keys |-> <<>>]
    ELSE IF outcome = "client_error" THEN [res |-> "list", keys |-> <<>>]
    ELSE IF outcome = "error" THEN [res |-> "raise", keys |-> <<>>]
    ELSE [res |-> "list",
          keys |-> matching_keys(contents, start_date, end_date)]

\* The dates of uploads and of ranges: around the end of a leap February.
Dates ==
    {Date(2024, 1, 31), Date(2024, 2, 28), Date(2024, 2, 29),
     Date(2024, 3, 1)}

FileName == <<"f">>

\* Keys found in a bucket: dated ones whose segments may or may not parse
\* to a date, and ones with fewer segments.
Years == {Pad4(2024)}
Months == {Pad2(2), Pad2(13), <<"2">>}
Days == {Pad2(29), Pad2(30), <<"x", "1">>}

ListedKeys ==
    {s3_key(<<y, m, d>>, FileName) : y \in Years, m \in Months, d \in Days}
    \cup {s3_key(<<>>, FileName),
          s3_key(<<Pad4(2024), Pad2(2)>>, FileName),
          s3_key(<<Pad4(2024), Pad2(2)>>, Pad2(29))}

RECURSIVE Listings(_)
Listings(n) ==
    IF n = 0 THEN {<<>>}
    ELSE Listings(n - 1)
         \cup {Append(l, Object(k)) : l \in Listings(n - 1), k \in ListedKeys}

ListInit ==
    /\ impl = "log_signer"
    /\ simulate \in BOOLEAN
    /\ today = 1
    /\ fs = NoFiles
    /\ s3 \in Listings(MaxKeys - 1)
    /\ handlers = <<>>
    /\ proc = NoProc
    /\ nextKey = 1
    /\ nextEvent = 1
    /\ inodes = 0
    /\ taken = 0
    /\ signed = NoSigned
    /\ ret = R0
    /\ request_data = NoValue
    /\ sanitized = NoValue

\* A live upload_to_s3(file_path, d.strftime("%Y/%m/%d/")) that succeeded:
\* the bucket holds an object under the key of lines 62-63.
ListUpload(d) ==
    /\ ~simulate
    /\ Len(s3) < MaxKeys
    /\ s3' = Append(s3, Object(s3_key(date_prefix(d), FileName)))
    /\ ret' = [Call("upload_to_s3", "true") EXCEPT !.steps = <<d>>]
    /\ UNCHANGED <<impl, simulate, today, fs, handlers, proc, nextKey,
                   nextEvent, inodes, taken, signed, request_data,
                   sanitized>>

ListOutcomes == {"ok", "client_error", "error"}

\* StorageProcessor.list_logs_for_date_range(start_date, end_date)
ListLogs(start_date, end_date, outcome) ==
    \E r \in {list_logs_for_date_range(s3, start_date, end_date, outcome)} :
       /\ ret' = [Call("list_logs_for_date_range", r.res)
                     EXCEPT !.steps = <<start_date, end_date, outcome>>,
                            !.ups = r.keys]
       /\ UNCHANGED <<impl, simulate, today, fs, s3, handlers, proc, nextKey,
                      nextEvent, inodes, taken, signed, request_data,
                      sanitized>>

ListNext ==
    \/ \E d \in Dates : ListUpload(d)
    \/ \E a \in Dates : \E b \in Dates : \E o \in ListOutcomes :
          ListLogs(a, b, o)

ListSpec == ListInit /\ [][ListNext]_vars

(* ------------------------ the sanitizers alone ------------------------ *)
\* Depth of nesting below the keys of the mapping handed to _sanitize_data.
MaxDepth == 2

\* Keys of the mappings: sensitive by every list, by the list of
\* audit_trail.py only, by the list of log_collector.py only, and not
\* sensitive.
KeyNames ==
    {<<"user", "_", "Password">>, <<"API", "_", "key">>, <<"ssn">>,
     <<"credential">>, <<"name">>}

\* The values nested at most d deep: a scalar, a mapping of one key, a
\* sequence of one element.
RECURSIVE ValuesOfDepth(_)
ValuesOfDepth(d) ==
    IF d = 0 THEN {Scalar("v")}
    ELSE LET below == ValuesOfDepth(d - 1)
         IN {Scalar("v")}
            \cup {Mapping(<<Item(k, v)>>) : k \in KeyNames, v \in below}
            \cup {List(<<v>>) : v \in below}

\* The mappings a caller hands to _sanitize_data.
SanitizeInputs ==
    {Mapping(<<>>)}
    \cup {Mapping(<<Item(k, v)>>) : k \in KeyNames, v \in ValuesOfDepth(MaxDepth)}
    \cup {Mapping(<<Item(<<"name">>, Scalar("v")), Item(k, Scalar("v"))>>) :
              k \in KeyNames \ {<<"name">>}}

SanitizeInit ==
    /\ impl \in {"audit_trail", "log_signer"}
    /\ simulate = TRUE
    /\ today = 1
    /\ fs = NoFiles
    /\ s3 = NoFiles
    /\ handlers = <<>>
    /\ proc = NoProc
    /\ nextKey = 1
    /\ nextEvent = 1
    /\ inodes = 0
    /\ taken = 0
    /\ signed = NoSigned
    /\ ret = R0
    /\ request_data \in SanitizeInputs
    /\ sanitized = NoValue

\* One call of _sanitize_data(request_data) by a caller that keeps the
\* object it handed over.
SanitizeData ==
    \E r \in {sanitize_data(request_data)} :
       /\ taken = 0
       /\ taken' = 1
       /\ request_data' = r.data
       /\ sanitized' = r.v
       /\ ret' = Call("sanitize_data", "value")
       /\ UNCHANGED <<impl, simulate, today, fs, s3, handlers, proc, nextKey,
                      nextEvent, inodes, signed>>

SanitizeNext == SanitizeData

SanitizeSpec == SanitizeInit /\ [][SanitizeNext]_vars

(* ------------------------------ properties ---------------------------- *)
\* The key a PEM file on disk holds, 0 when there is none to load.
KeyIn(p, kind) ==
    IF Exists(fs, p) /\ IsPem(fs[p], kind) THEN fs[p][1].n ELSE 0

\* The two key files hold the two halves of one generated key pair.
KeyPairPresent ==
    /\ KeyIn(get_private_key_path, "priv") # 0
    /\ KeyIn(get_public_key_path, "pub") = KeyIn(get_private_key_path, "priv")

HasAuditLine(c) == \E i \in DOMAIN c : c[i].t = "audit"

\* C1: with a generated key pair on disk and storage in simulation mode,
\* right after process_daily_logs returned True a verify_logs() call with
\* no arguments returns True.
C1_SealThenVerify ==
    (ret.op = "process_daily_logs" /\ ret.res = "true" /\ simulate
        /\ KeyPairPresent)
    => verify_logs(fs, None, None, FALSE).res = "true"

\* C1 happens: events were logged, the seal that followed returned True,
\* the snapshot holds the events, and verify_logs() returns True.
C1_Witness ==
    /\ ret.op = "process_daily_logs" /\ ret.res = "true"
    /\ simulate /\ KeyPairPresent
    /\ signed.file = proc.snapshot_log_path
    /\ HasAuditLine(Bytes(fs, proc.snapshot_log_path))
    /\ verify_logs(fs, None, None, FALSE).res = "true"

\* The file and the signature of the last sign_file call are on disk as
\* that call read and wrote them.
SignedIntact ==
    /\ signed.file # None
    /\ Exists(fs, signed.file) /\ fs[signed.file] = signed.content
    /\ Exists(fs, signed.sig) /\ fs[signed.sig] = signed.sigc

\* C2: when sign_file(F) returned the signature path S with a key pair on
\* disk, and neither F, S nor the key files changed since, verify_file(F, S)
\* returns True.
C2_SignVerifyRoundTrip ==
    (SignedIntact /\ KeyPairPresent /\ KeyFiles(fs) = signed.keys)
    => verify_file(fs, signed.file, signed.sig, "ok").v

\* C2 happens: verify_file was called on a signed file with the signature
\* sign_file wrote for it, nothing changed in between, and returned True.
C2_Witness ==
    /\ ret.op = "verify_file" /\ ret.res = "true"
    /\ ret.a1 = signed.file /\ ret.a2 = signed.sig
    /\ SignedIntact /\ KeyPairPresent /\ KeyFiles(fs) = signed.keys
    /\ signed.content # <<>>

\* The signature of the last sign_file call is on disk as written, and the
\* signed file now holds other bytes.
SignedThenChanged ==
    /\ signed.file # None
    /\ Exists(fs, signed.sig) /\ fs[signed.sig] = signed.sigc
    /\ Exists(fs, signed.file) /\ fs[signed.file] # signed.content

\* C3: when a signed file holds other bytes than the ones that were signed,
\* verify_file and verify_logs with the original signature do not return
\* True.
C3_TamperDetected ==
    SignedThenChanged
    => /\ ~verify_file(fs, signed.file, signed.sig, "ok").v
       /\ verify_logs(fs, signed.file, signed.sig, FALSE).res = "false"
       /\ (signed.file = proc.snapshot_log_path
              /\ signed.sig = proc.signature_path)
           => verify_logs(fs, None, None, FALSE).res = "false"

\* C3 happens: a file was signed, lines were written to it afterwards, the
\* key pair and the signature are intact, and verify_file on the file and
\* its signature returned False.
C3_Witness ==
    /\ ret.op = "verify_file" /\ ret.res = "false"
    /\ ret.a1 = signed.file /\ ret.a2 = signed.sig
    /\ SignedThenChanged /\ KeyPairPresent /\ KeyFiles(fs) = signed.keys

\* A generate_keys call succeeded and left the two key files as they were.
KeysKept(r) == r.v /\ KeyFiles(r.f) = KeyFiles(fs)

\* C4: in every implementation, and in the generate-keys command, a
\* generate_keys call made when both key files exist returns True and leaves
\* both key files content-identical.
C4_GenerateKeysIdempotent ==
    (Exists(fs, get_private_key_path) /\ Exists(fs, get_public_key_path))
    => /\ KeysKept(generate_keys(fs, nextKey, "ok"))
       /\ impl = "log_signer" => KeysKept(main_generate_keys(fs, nextKey, "ok"))

\* C5: a generate_keys call that starts with no key files, failing or not,
\* ends with both key files or with neither.
C5_GenerateKeysAllOrNothing ==
    [][(ret'.op \in {"generate_keys", "main_generate_keys"}
          /\ ~Exists(fs, get_private_key_path)
          /\ ~Exists(fs, get_public_key_path))
       => (Exists(fs', get_private_key_path)
             <=> Exists(fs', get_public_key_path))]_vars

\* Signature paths a caller may hand to verify_file: the signature files,
\* and a file that is no signature.
VerifySigs == SigFiles \cup {TodaysLog}

\* What C6 says of one verify_file result v.
FailsClosed(v, file, sig, io) ==
    LET key == KeyIn(get_public_key_path, "pub")
        valid == /\ Exists(fs, file) /\ Exists(fs, sig) /\ key # 0
                 /\ RsaVerify(key, fs[sig], fs[file])
    IN /\ v \in BOOLEAN
       /\ ~Exists(fs, file) => ~v
       /\ ~Exists(fs, sig) => ~v
       /\ key = 0 => ~v
       /\ ~valid => ~v
       /\ v => (valid /\ io = "ok")
       /\ (valid /\ io = "ok") => v

\* C6: verify_file returns a boolean and never raises; it returns False
\* when the file is missing, when the signature file is missing, when the
\* public key is missing or does not load, and when the signature is not
\* valid for the bytes of the file; it returns True only when the
\* cryptographic verification succeeded.
C6_VerifyFailsClosed ==
    \A file \in Files, sig \in VerifySigs, io \in VerifyIOs :
        FailsClosed(verify_file(fs, file, sig, io).v, file, sig, io)

\* C6 happens: verify_file was called on a file and a signature made for it
\* with the private key on disk, both on disk, while the public key file
\* holds nothing loadable, and returned False.
C6_Witness ==
    /\ ret.op = "verify_file" /\ ret.res = "false"
    /\ Exists(fs, ret.a1) /\ Exists(fs, ret.a2)
    /\ KeyIn(get_private_key_path, "priv") # 0
    /\ fs[ret.a2] = RsaSign(KeyIn(get_private_key_path, "priv"), fs[ret.a1])
    /\ KeyIn(get_public_key_path, "pub") = 0

\* The path verify_logs looks for when given the log path p.
ResolvedLog(p) == IF p.dir = "" THEN P(LOG_DIR, p.name) ELSE p

\* C7: verify_logs given a log path that does not exist returns False and
\* does not raise, whatever the signature path argument is and whether or
\* not a seal happened before.
C7_MissingLogIsFalse ==
    proc.alive
    => \A logArg \in LogArgs \ {None}, sigArg \in SigArgs, sigStr \in BOOLEAN :
           ~Exists(fs, ResolvedLog(logArg))
           => verify_logs(fs, logArg, sigArg, sigStr).res = "false"

\* C7 happens: after a seal, verify_logs was called with a log path that
\* does not exist and returned False.
C7_Witness ==
    /\ ret.op = "verify_logs" /\ ret.a1 = Missing /\ ret.res = "false"
    /\ proc.snapshot_log_path # None
    /\ Exists(fs, proc.snapshot_log_path)

\* The steps of process_daily_logs in order.
AllSteps == <<"flush", "copy", "hash", "save_hash", "sign", "upload">>

\* The local artifacts of the steps after the i-th one.
LaterArtifacts(i) ==
    LET snap == SnapshotOf(proc.log_path)
    IN (IF i < 2 THEN {snap} ELSE {})
       \cup (IF i < 4 THEN {Ext(snap, HASH_FILE_EXTENSION)} ELSE {})
       \cup (IF i < 5 THEN {Ext(snap, SIGNATURE_FILE_EXTENSION)} ELSE {})

\* C8: a process_daily_logs call in which a step failed returns False, and
\* the steps after the failing one did not run: the files they write and
\* the archive are as they were before the call.
C8_HaltsAndReturnsFalse ==
    [][(ret'.op = "process_daily_logs" /\ ret'.res # "true")
       => /\ ret'.res = "false"
          /\ \A p \in LaterArtifacts(Len(ret'.steps)) :
                 Bytes(fs', p) = Bytes(fs, p)
          /\ Len(ret'.steps) < Len(AllSteps) => s3' = s3]_vars

\* C9: in every implementation process_daily_logs returns True only when
\* the snapshot, the hash sidecar and the signature were each uploaded with
\* a successful result.
C9_TrueOnlyIfAllUploaded ==
    (ret.op = "process_daily_logs" /\ ret.res = "true")
    => (Len(ret.ups) = 3 /\ \A i \in 1..3 : ret.ups[i])

IsPrefix(a, b) == Len(a) <= Len(b) /\ SubSeq(b, 1, Len(a)) = a

\* What a failed process_daily_logs call left behind, f and s being the
\* files and the archive after it, steps the steps it ran and ups its upload
\* results: no file and no archived object is gone, the key files are as
\* they were, and the snapshot, the digest, the signature and the objects of
\* the uploads that succeeded hold what their steps wrote.
ArtifactsKept(f, s, steps, ups) ==
    LET log_path == proc.log_path
        snap == SnapshotOf(log_path)
        hash_path == Ext(snap, HASH_FILE_EXTENSION)
        sig == Ext(snap, SIGNATURE_FILE_EXTENSION)
        paths == <<snap, hash_path, sig>>
        n == Len(steps)
    IN /\ DOMAIN fs \subseteq DOMAIN f
       /\ DOMAIN s3 \subseteq DOMAIN s
       /\ KeyFiles(f) = KeyFiles(fs)
       /\ n >= 3 => (Exists(f, snap) /\ f[snap] = fs[log_path])
       /\ n >= 5 => (Exists(f, hash_path)
                       /\ f[hash_path] = Sha256Hex(fs[log_path]))
       /\ n >= 6 => (Exists(f, sig)
                       /\ f[sig] = RsaSign(KeyIn(get_private_key_path, "priv"),
                                           fs[log_path]))
       /\ \A i \in DOMAIN ups :
              (ups[i] /\ ~simulate)
              => (Exists(s, S3Key(today, paths[i]))
                    /\ s[S3Key(today, paths[i])] = f[paths[i]])
       /\ \A k \in DOMAIN s3 :
              (\A i \in DOMAIN ups : ups[i] => k # S3Key(today, paths[i]))
              => s[k] = s3[k]

\* The live daily log holds exactly what it held before the call.
LogUnchanged(f) == Bytes(f, proc.log_path) = Bytes(fs, proc.log_path)

\* The live daily log still starts with everything it held before the call.
LogOnlyAppended(f) ==
    /\ Exists(f, proc.log_path) <=> Exists(fs, proc.log_path)
    /\ IsPrefix(Bytes(fs, proc.log_path), Bytes(f, proc.log_path))

SensitiveSubstrings ==
    {<<"password">>, <<"token">>, <<"secret">>, <<"key">>,
     <<"authorization">>, <<"credit", "_", "card">>, <<"ssn">>,
     <<"social", "_", "security">>, <<"api", "_", "key">>, <<"credential">>}

\* The value a sanitizer is to return: the marker under every sensitive key,
\* whatever the value, and the same rule applied inside nested mappings and
\* the elements of sequences.
RECURSIVE Sanitize(_)
Sanitize(v) ==
    CASE v.t = "dict" ->
           Mapping([i \in DOMAIN v.kids |->
                      IF IsSensitive(v.kids[i].k, SensitiveSubstrings)
                      THEN Item(v.kids[i].k, REDACTED)
                      ELSE Item(v.kids[i].k, Sanitize(v.kids[i].v))])
      [] v.t = "list" ->
           List([i \in DOMAIN v.kids |-> Sanitize(v.kids[i].v)])
      [] OTHER -> v

\* C11: every call of _sanitize_data, of either implementation, returns its
\* argument with the marker "[REDACTED]" under every key whose lowercase
\* form contains one of the ten sensitive substrings, at every depth and
\* whatever the type of the value, and with every other key's value kept.
C11_RedactsEverySensitiveKey ==
    [][sanitized' = Sanitize(request_data)]_vars

\* C12: a call of _sanitize_data leaves the object it was given, and every
\* mapping and sequence nested in it, holding the values it held before.
C12_InputNotMutated ==
    [][request_data' = request_data]_vars


(* ----------------------------- LogEvent ------------------------------ *)
\* The details of the audit lines of a file.
DetailsIn(c) == {c[i].of[1] : i \in {j \in DOMAIN c : c[j].t = "audit"}}

\* C13: every audit line in every file holds sanitized details: what
\* log_event appended for details d is Sanitize(d), which has the marker
\* under every sensitive key, whether the application called log_event or
\* log_api_event.
C13_LoggedDetailsSanitized ==
    \A p \in DOMAIN fs : \A d \in DetailsIn(fs[p]) : Sanitize(d) = d


(* ----------------------------- snapshots ----------------------------- *)
LogOps == {"log_event", "log_api_event"}

\* The snapshot, hash sidecar and signature of the last seal.
SealedArtifacts ==
    {proc.snapshot_log_path,
     Ext(proc.snapshot_log_path, HASH_FILE_EXTENSION),
     proc.signature_path}

SameFile(f, g, p) == Exists(f, p) = Exists(g, p) /\ Bytes(f, p) = Bytes(g, p)

\* C14: a log_event or log_api_event call made after a seal leaves the
\* sealed snapshot, its hash sidecar and its signature byte for byte as
\* they were, and a verify_logs() that returned True before the call still
\* returns True after it.
C14_SnapshotIsolation ==
    [][(ret'.op \in LogOps /\ proc.snapshot_log_path # None)
       => /\ \A p \in SealedArtifacts : SameFile(fs, fs', p)
          /\ verify_logs(fs, None, None, FALSE).res = "true"
             => verify_logs(fs', None, None, FALSE).res = "true"]_vars

\* C14 happens: an event was logged after a seal, the live log has grown
\* past the snapshot, and verify_logs() returns True.
C14_Witness ==
    /\ ret.op \in LogOps
    /\ proc.snapshot_log_path # None
    /\ \A p \in SealedArtifacts : Exists(fs, p)
    /\ Len(Bytes(fs, proc.log_path)) > Len(Bytes(fs, proc.snapshot_log_path))
    /\ HasAuditLine(Bytes(fs, proc.log_path))
    /\ verify_logs(fs, None, None, FALSE).res = "true"


\* C15: once process_daily_logs has created the snapshot of the day, no
\* later log_event, log_api_event, process_daily_logs or verify_logs call
\* of the same process on the same day changes the snapshot's content.
C15_SnapshotImmutable ==
    [][(/\ ret'.op \in LogOps \cup {"process_daily_logs", "verify_logs"}
        /\ today' = today
        /\ proc.snapshot_log_path # None
        /\ Exists(fs, proc.snapshot_log_path))
       => SameFile(fs, fs', proc.snapshot_log_path)]_vars


(* ---------------------------- hash record ---------------------------- *)
\* The files calculate_sha256 may be asked to hash.
Hashable == {TodaysLog, TodaysSnapshot, Missing}

\* C16: right after a process_daily_logs call that got past save_hash, the
\* sidecar <snapshot>.sha256 holds the SHA-256 hex digest of the snapshot
\* the call made; and calculate_sha256 of a file that does not exist
\* returns no digest.
C16_HashRecord ==
    /\ (ret.op = "process_daily_logs" /\ Len(ret.steps) >= 5)
       => LET snap == SnapshotOf(proc.log_path)
              hash_path == Ext(snap, HASH_FILE_EXTENSION)
          IN /\ Exists(fs, snap) /\ Exists(fs, hash_path)
             /\ fs[hash_path] = Sha256Hex(fs[snap])
             /\ fs[hash_path] = calculate_sha256(fs, snap, "ok").v
    /\ \A p \in Hashable :
          ~Exists(fs, p) => calculate_sha256(fs, p, "ok").v = NoDigest

\* C16 happens: a seal wrote the sidecar of a snapshot that holds audit
\* lines, and a file that could be hashed does not exist.
C16_Witness ==
    /\ ret.op = "process_daily_logs" /\ Len(ret.steps) >= 5
    /\ HasAuditLine(Bytes(fs, SnapshotOf(proc.log_path)))
    /\ Exists(fs, Ext(SnapshotOf(proc.log_path), HASH_FILE_EXTENSION))
    /\ \E p \in Hashable : ~Exists(fs, p)


(* ------------------------ signature alone ---------------------------- *)
IsSidecar(p) ==
    Len(p.name) > 0 /\ p.name[Len(p.name)] = HASH_FILE_EXTENSION

\* The files with every .sha256 sidecar deleted, and with every sidecar
\* overwritten by other bytes.
SidecarsLost(f) == [p \in {q \in DOMAIN f : ~IsSidecar(q)} |-> f[p]]

SidecarsCorrupted(f) ==
    [p \in DOMAIN f |-> IF IsSidecar(p) THEN Garbage ELSE f[p]]

\* C17: whenever a .sha256 sidecar is on disk, every verify_file and
\* verify_logs call returns what it would return with the sidecars deleted
\* and what it would return with the sidecars corrupted.
C17_SignatureAlone ==
    (\E p \in DOMAIN fs : IsSidecar(p))
    => \A g \in {SidecarsLost(fs), SidecarsCorrupted(fs)} :
          /\ \A c \in VerifyLogsCalls :
                verify_logs(g, c[1], c[2], c[3]).res
                   = verify_logs(fs, c[1], c[2], c[3]).res
          /\ \A c \in VerifyFileCalls :
                verify_file(g, c[1], c[2], c[3]).v
                   = verify_file(fs, c[1], c[2], c[3]).v

\* C17 happens: after a seal the sidecar of the snapshot was overwritten
\* behind the program's back, and verify_logs() returns True.
C17_Witness ==
    /\ ret.op = "env_tamper" /\ IsSidecar(ret.a1)
    /\ proc.snapshot_log_path # None
    /\ ret.a1 = Ext(proc.snapshot_log_path, HASH_FILE_EXTENSION)
    /\ fs[ret.a1] # Sha256Hex(Bytes(fs, proc.snapshot_log_path))
    /\ verify_logs(fs, None, None, FALSE).res = "true"


(* -------------------------- path resolution -------------------------- *)
\* The log path verify_logs is to work on: the argument, else the snapshot
\* of the last seal; a bare file name is taken under LOG_DIR.
ExpectedLog(logArg) ==
    LET given == IF logArg # None THEN logArg ELSE proc.snapshot_log_path
    IN IF given.dir = "" THEN P(LOG_DIR, given.name) ELSE given

\* The signature path: the argument, else the signature of the last seal,
\* else SIGNATURES_DIR/<log name>.sig.
ExpectedSig(logArg, sigArg) ==
    IF sigArg # None THEN sigArg
    ELSE IF proc.signature_path # None THEN proc.signature_path
    ELSE P(SIGNATURES_DIR,
           Append(ExpectedLog(logArg).name, SIGNATURE_FILE_EXTENSION))

\* C18: a verify_logs call that has a log path to work on (an argument or
\* a last-sealed snapshot) works on the log path and the signature path of
\* the stated resolution order, whatever the files on disk.
C18_PathResolution ==
    \A l \in LogArgs : \A g \in SigArgs :
       (l # None \/ proc.snapshot_log_path # None)
       => /\ verify_logs(fs, l, g, FALSE).rlog = ExpectedLog(l)
          /\ verify_logs(fs, l, g, FALSE).rsig = ExpectedSig(l, g)

\* C18 happens: after a seal, verify_logs was called with the snapshot's
\* bare file name and no signature and returned True, so it read the
\* snapshot under LOG_DIR and the signature held in memory; and a call
\* with the live log and no signature would take the held signature too.
C18_Witness ==
    /\ ret.op = "verify_logs" /\ ret.res = "true"
    /\ ret.a1 = Bare(TodaysSnapshot) /\ ret.a2 = None
    /\ proc.signature_path # None
    /\ proc.snapshot_log_path # TodaysLog
    /\ verify_logs(fs, TodaysLog, None, FALSE).rsig = proc.signature_path


(* ------------------------- failures, uploads ------------------------- *)
Returned == {"true", "false"}

\* C19: a process_daily_logs call made when the live daily log is not on
\* disk returns False and does not raise; and in live mode no upload_to_s3
\* call raises, whatever the S3 client does: each returns True or False.
C19_NoExceptionCrossesBoundary ==
    [][/\ (ret'.op = "process_daily_logs" /\ ~Exists(fs, proc.log_path))
          => ret'.res = "false"
       /\ ~simulate
          => \A p \in UploadPaths : \A o \in ClientOutcomes :
                Upload_to_s3(fs', s3', p, today, o).v \in Returned]_vars

\* C20: in simulation mode every upload_to_s3 call returns True, for every
\* local path, one that does not exist included, and every key prefix,
\* and leaves the archive as it was.
C20_SimulatedUploadSucceeds ==
    [][(ret'.op = "upload_to_s3" /\ simulate)
       => ret'.res = "true" /\ s3' = s3]_vars


(* ------------------------------ listing ------------------------------ *)
\* The key has the three date segments and they parse to a date.
Dated(k) ==
    /\ Len(k) >= 4
    /\ IsInt(k[2]) /\ IsInt(k[3]) /\ IsInt(k[4])
    /\ IsDate(IntOf(k[2]), IntOf(k[3]), IntOf(k[4]))

KeyDate(k) == Date(IntOf(k[2]), IntOf(k[3]), IntOf(k[4]))

\* Days counted on a line on which later dates are further.
Ordinal(d) == d.year * 372 + d.month * 31 + d.day

InRange(d, a, b) == Ordinal(a) <= Ordinal(d) /\ Ordinal(d) <= Ordinal(b)

Listed == {s3[i].Key : i \in DOMAIN s3}

C22_SelfVerificationNoGate ==
    [][ret'.op = "sign_file"
       => /\ ~SameFile(fs, fs', SigOf(ret'.a1))
             => ret'.res = "path" /\ ret'.a2 = SigOf(ret'.a1)
          /\ (~Exists(fs, ret'.a1) \/ ~Exists(fs, get_private_key_path))
             => ret'.res = "none" /\ SameFile(fs, fs', SigOf(ret'.a1))]_vars

\* C22 happens: sign_file returned the path of the signature it wrote
\* although no public key is on disk, so that its self-verification
\* returned False.
C22_Witness ==
    /\ ret.op = "sign_file" /\ ret.res = "path"
    /\ Exists(fs, ret.a2) /\ fs[ret.a2] = signed.sigc
    /\ ~Exists(fs, get_public_key_path)
    /\ ~verify_file(fs, ret.a1, ret.a2, "ok").v


(* --------------------------- log identity ---------------------------- *)
\* How many audit lines of event id in the content c.
RECURSIVE Copies(_, _)
Copies(c, id) ==
    IF c = <<>> THEN 0
    ELSE Copies(Tail(c), id)
         + (IF Head(c).t = "audit" /\ Head(c).n = id THEN 1 ELSE 0)

\* C23: after its construction an AuditLogger's log_path never changes,
\* whatever is called and whatever the date becomes; and as long as its
\* handler is attached, each log_event call appends its record to the file
\* at that log_path, also after the date has advanced.
C23_LogIdentityFixed ==
    [][/\ (proc.alive /\ ret'.op # "construct")
          => proc'.log_path = proc.log_path
       /\ (ret'.op \in LogOps /\ proc.file_handler)
          => /\ IsPrefix(Bytes(fs, proc.log_path), Bytes(fs', proc.log_path))
             /\ Copies(Bytes(fs', proc.log_path), nextEvent) >= 1]_vars

\* C23 happens: the date advanced after the logger was constructed, then
\* an event was logged: it is in the file of the construction date, and no
\* file of the new date exists.
C23_Witness ==
    /\ ret.op = "log_event"
    /\ proc.file_handler
    /\ proc.log_path # get_log_path(today)
    /\ ~Exists(fs, get_log_path(today))
    /\ Copies(Bytes(fs, proc.log_path), nextEvent - 1) = 1


(* ------------------------ verifying when idle ------------------------ *)
\* C24: a verify_logs() call with no arguments on a processor that has
\* never sealed returns False; it does not raise.
C24_IdleVerifyIsFalse ==
    [][(/\ ret'.op = "verify_logs"
        /\ ret'.a1 = None /\ ret'.a2 = None
        /\ proc.snapshot_log_path = None)
       => ret'.res = "false"]_vars

\* C25: on a processor just constructed, which holds no last-sealed
\* paths, when the snapshot that an earlier process_daily_logs sealed and
\* the signature that sign_file wrote for it are on disk as written, with
\* the key pair that signed, verify_logs(snapshot) without a signature
\* path returns True.
C25_VerifyFromPathAlone ==
    (/\ ret.op = "construct"
     /\ proc.alive /\ proc.snapshot_log_path = None
     /\ signed.file = SnapshotOf(proc.log_path)
     /\ SignedIntact
     /\ KeyPairPresent /\ KeyFiles(fs) = signed.keys)
    => verify_logs(fs, signed.file, None, FALSE).res = "true"


(* ------------------------- one record per event ---------------------- *)
\* How many audit lines of event id in the daily logs of the days up to d.
RECURSIVE DailyCopies(_, _, _)
DailyCopies(f, id, d) ==
    IF d = 0 THEN 0
    ELSE DailyCopies(f, id, d - 1) + Copies(Bytes(f, get_log_path(d)), id)

\* C26: after any sequence of constructions, log_event and finalize_log
\* calls, on any dates, every event id that log_event has returned is in
\* the daily logs exactly once.
C26_OneRecordPerEvent ==
    \A id \in 1..(nextEvent - 1) : DailyCopies(fs, id, today) = 1


(* --------------------------- repeated seals -------------------------- *)
\* The public key on disk is the one of the pair that made the last
\* signature.
SealKeyOnDisk ==
    /\ IsPem(signed.keys.priv, "priv") /\ IsPem(signed.keys.pub, "pub")
    /\ signed.keys.pub[1].n = signed.keys.priv[1].n
    /\ Bytes(fs, get_public_key_path) = signed.keys.pub

\* C27: in every state reached by constructions, log_event and
\* process_daily_logs calls, whichever step of a seal failed and also with
\* the private key removed, when the processor holds last-sealed paths and
\* the public key of the last signature is on disk, the signature at the
\* held path is valid for the snapshot at the held path: verify_logs()
\* returns True.
C27_ArtifactPairConsistent ==
    (proc.alive /\ proc.snapshot_log_path # None /\ SealKeyOnDisk)
    => verify_logs(fs, None, None, FALSE).res = "true"

\* C28: a process_daily_logs call that returns False, also one that
\* failed only because an upload failed, leaves the last-sealed paths the
\* processor holds as they were before the call.
C28_PathsOnlyFromFullSeal ==
    [][(ret'.op = "process_daily_logs" /\ ret'.res = "false")
       => /\ proc'.snapshot_log_path = proc.snapshot_log_path
          /\ proc'.signature_path = proc.signature_path]_vars


(* ------------------------- the archive partition --------------------- *)
\* C29: every object process_daily_logs has put in the archive lies under
\* the date prefix of the day named in the daily log it was sealed from,
\* also when the date advanced between the construction of the logger and
\* the seal.
C29_PartitionIsLogDate ==
    \A k \in DOMAIN s3 : get_log_path(k.date).name = SubSeq(k.name, 1, 3)


(* ------------------------ verifying changes nothing ------------------ *)
\* C30: a verify_logs call, whatever its result, leaves every file (the
\* live log, the snapshot, the digest, the signature, the key files) and
\* the last-sealed paths the processor holds as they were, so the same
\* call made again at once returns the same result.
C30_VerifyIsReadOnly ==
    [][ret'.op = "verify_logs"
       => /\ fs' = fs
          /\ proc' = proc
          /\ ret'.res # "raise"
             => verify_logs(fs', ret'.a1, ret'.a2, FALSE).res = ret'.res]_vars
====
